---------------------------- MODULE Spec2Model ----------------------------
(***************************************************************************)
(* Secret Santa server (src/server.js): the assignment generator           *)
(* (makeAssignments and its helpers), the validator, and the state manager *)
(* behind /api/state, /api/draw and /api/reset.                            *)
(*                                                                         *)
(* JavaScript arrays are modelled as sequences; the code's 0-based index i *)
(* is kept in the operators and becomes position i + 1 of the sequence.    *)
(* A JavaScript object used as a map is a function whose DOMAIN is the set *)
(* of its keys; reading a missing key yields Undefined.                    *)
(***************************************************************************)
EXTENDS Integers, Sequences, FiniteSets, TLC

VARIABLES
    names,        \* makeAssignments: parameter names
    exclusions,   \* makeAssignments: parameter exclusions
    attempt,      \* makeAssignments: loop counter attempt
    shuffled,     \* makeAssignments: local shuffled of the last attempt
    mapping,      \* makeAssignments: local mapping of the last attempt
    gen,          \* makeAssignments: "off", "loop", "returned" or "thrown"
    error,        \* makeAssignments: the message of the error thrown, or ""
    valNames,     \* validateAssignments: parameter names
    valExclusions,\* validateAssignments: parameter exclusions
    valMapping,   \* validateAssignments: parameter mapping
    valResult,    \* validateAssignments: the value returned
    valPc,        \* validateAssignments: "off", "call" or "done"
    fixNames,     \* fixExclusions: parameter names
    fixExcl,      \* fixExclusions: parameter exclusions
    fixInput,     \* fixExclusions: parameter map as passed
    fixMap,       \* fixExclusions: the map as the call leaves it
    fixOk,        \* fixExclusions: the value returned
    fixPc,        \* fixExclusions: "off", "call" or "done"
    EXCLUSIONS,   \* the configured EXCLUSIONS of this run of the server
    phase,        \* the process: "off", "boot", "listening" or "exited"
    state,        \* the module variable state
    file,         \* the content of data/state.json
    pc,           \* per request slot: where its handler stands
    reqGiver,     \* per request slot: the draw handler's local giver
    reqRecipient, \* per request slot: the draw handler's local recipient
    data,         \* per request slot: saveState's local data being written
    response,     \* the response the last step sent, if any
    started,      \* number of requests received so far
    failures,     \* number of file-system calls that failed so far
    epoch,        \* number of states built or loaded so far
    reqEpoch,     \* per request slot: the value of epoch at the handler's reveal
    succeeded     \* the givers whose draw on the present state was answered 200

genVars == <<names, exclusions, attempt, shuffled, mapping, gen, error>>

valVars == <<valNames, valExclusions, valMapping, valResult, valPc>>

srvVars ==
    <<EXCLUSIONS, phase, state, file, pc, reqGiver, reqRecipient, data, response,
      started, failures, epoch, reqEpoch, succeeded>>

fixVars == <<fixNames, fixExcl, fixInput, fixMap, fixOk, fixPc>>

vars == <<genVars, valVars, srvVars, fixVars>>

-----------------------------------------------------------------------------
(* Bounds of the model *)

\* Longest roster handed to the generator and the validator.
MaxLen == 3

\* Largest number of (giver, excluded name) pairs an exclusion map is built
\* from; each map is taken as listed and applied in both directions.
MaxExcl == 1

\* Requests whose handlers may be in progress at the same time.
NumSlots == 2

\* Requests the server receives in one run.
MaxRequests == 3

\* File-system calls (mkdir, writeFile) that fail in one run.
MaxFailures == 1

\* States built or loaded in one run (the one of the start included).
MaxEpochs == 2

\* Attempt budget of makeAssignments used in the model; the source's budget
\* is 1000 (server.js line 362) and every statement below is uniform in it.
MaxAttempts == 3

-----------------------------------------------------------------------------
(* Names and JavaScript values *)

\* The names of PARTICIPANTS, in the order of the source.
AllNames == <<"Alice", "Bob", "Charlie", "Danielle", "Erin", "Frank">>

FirstNames(n) == {AllNames[i] : i \in 1..n}

\* The value of a missing property.
Undefined == "undefined"

\* The error makeAssignments throws.
GenerationError == "Could not build assignments with the given exclusions."

Range(s) == {s[i] : i \in DOMAIN s}

EmptyMap == [k \in {} |-> Undefined]

\* obj[key]
Get(obj, key) == IF key \in DOMAIN obj THEN obj[key] ELSE Undefined

\* obj[key] = value
Put(obj, key, value) ==
    [k \in DOMAIN obj \cup {key} |-> IF k = key THEN value ELSE obj[k]]

\* [arr[a], arr[b]] = [arr[b], arr[a]], a and b 0-based
SwapAt(arr, a, b) == [arr EXCEPT ![a + 1] = arr[b + 1], ![b + 1] = arr[a + 1]]

-----------------------------------------------------------------------------
(* shuffle: Fisher-Yates.  rnd[i] is the value of                          *)
(* Math.floor(Math.random() * (i + 1)) drawn in the iteration for index i. *)

RandomDraws(n) ==
    {rnd \in [1..(n - 1) -> 0..(n - 1)] : \A i \in 1..(n - 1) : rnd[i] <= i}

RECURSIVE shuffleFrom(_, _, _)
shuffleFrom(arr, rnd, i) ==
    IF i > 0
    THEN shuffleFrom(SwapAt(arr, i, rnd[i]), rnd, i - 1)
    ELSE arr

shuffle(arr, rnd) == shuffleFrom(arr, rnd, Len(arr) - 1)

-----------------------------------------------------------------------------
(* validatePair, fixExclusions, validateAssignments *)

\* Banned with the exclusion list left out of the set.
BannedSelfOnly(giver, excl) == {giver}

\* new Set([giver, ...(exclusions[giver] || [])])
Banned(giver, excl) ==
    {giver} \cup (IF giver \in DOMAIN excl THEN excl[giver] ELSE {})

validatePair(giver, recv, excl) ==
    IF giver = recv THEN FALSE ELSE recv \notin Banned(giver, excl)

isBanned(giver, recv, excl) == recv \in Banned(giver, excl)

\* findSwap with the counterparts tried from the last name to the first.
RECURSIVE findSwapFromEnd(_, _, _, _, _)
findSwapFromEnd(map, nms, excl, i, j) ==
    IF j >= Len(nms) THEN -1
    ELSE LET k == Len(nms) - 1 - j
             giver == nms[i + 1]
             recv == Get(map, giver)
             other == nms[k + 1]
             otherRecv == Get(map, other)
         IN  IF i = k THEN findSwapFromEnd(map, nms, excl, i, j + 1)
             ELSE IF other = giver \/ otherRecv = giver
                  THEN findSwapFromEnd(map, nms, excl, i, j + 1)
             ELSE IF /\ recv \notin Banned(other, excl)
                     /\ otherRecv \notin Banned(giver, excl)
                  THEN k
             ELSE findSwapFromEnd(map, nms, excl, i, j + 1)

\* The inner loop of fixExclusions from index j on: the index of the first
\* counterpart the swap is applied to, or -1 when the loop ends unswapped.
RECURSIVE findSwap(_, _, _, _, _)
findSwap(map, nms, excl, i, j) ==
    IF j >= Len(nms) THEN -1
    ELSE LET giver == nms[i + 1]
             recv == Get(map, giver)
             other == nms[j + 1]
             otherRecv == Get(map, other)
         IN  IF i = j THEN findSwap(map, nms, excl, i, j + 1)
             ELSE IF other = giver \/ otherRecv = giver
                  THEN findSwap(map, nms, excl, i, j + 1)
             ELSE IF /\ ~isBanned(giver, otherRecv, excl)
                     /\ ~isBanned(other, recv, excl)
                     /\ giver # otherRecv
                     /\ other # recv
                  THEN j
             ELSE findSwap(map, nms, excl, i, j + 1)

\* The outer loop of fixExclusions from index i on.  The result is the map
\* as the call leaves it and the value returned.
RECURSIVE fixFrom(_, _, _, _)
fixFrom(map, nms, excl, i) ==
    IF i >= Len(nms)
    THEN [map |-> map,
          ok |-> \A k \in 1..Len(nms) :
                    Get(map, nms[k]) # Undefined /\ Get(map, nms[k]) # nms[k]]
    ELSE LET giver == nms[i + 1]
             recv == Get(map, giver)
         IN  IF isBanned(giver, recv, excl) \/ giver = recv
             THEN LET j == findSwap(map, nms, excl, i, 0)
                  IN  IF j = -1
                      THEN [map |-> map, ok |-> FALSE]
                      ELSE LET other == nms[j + 1]
                               otherRecv == Get(map, other)
                           IN  fixFrom(Put(Put(map, giver, otherRecv), other, recv),
                                       nms, excl, i + 1)
             ELSE fixFrom(map, nms, excl, i + 1)

fixExclusions(map, nms, excl) == fixFrom(map, nms, excl, 0)

\* validateFrom without the names.includes(recv) test of line 428.
RECURSIVE validateFromAnyRecipient(_, _, _, _, _)
validateFromAnyRecipient(map, nms, excl, seen, i) ==
    IF i >= Len(nms) THEN Cardinality(seen) = Len(nms)
    ELSE LET giver == nms[i + 1]
             recv == Get(map, giver)
         IN  IF recv = Undefined THEN FALSE
             ELSE IF giver = recv THEN FALSE
             ELSE IF recv \in Banned(giver, excl) THEN FALSE
             ELSE IF recv \in seen THEN FALSE
             ELSE validateFromAnyRecipient(map, nms, excl, seen \cup {recv}, i + 1)

\* The loop of validateAssignments from index i on, seen = seenRecipients.
RECURSIVE validateFrom(_, _, _, _, _)
validateFrom(map, nms, excl, seen, i) ==
    IF i >= Len(nms) THEN Cardinality(seen) = Len(nms)
    ELSE LET giver == nms[i + 1]
             recv == Get(map, giver)
         IN  IF recv = Undefined \/ recv \notin Range(nms) THEN FALSE
             ELSE IF giver = recv THEN FALSE
             ELSE IF recv \in Banned(giver, excl) THEN FALSE
             ELSE IF recv \in seen THEN FALSE
             ELSE validateFrom(map, nms, excl, seen \cup {recv}, i + 1)

validateAssignments(map, nms, excl) == validateFrom(map, nms, excl, {}, 0)

-----------------------------------------------------------------------------
(* makeAssignments: one iteration of the attempt loop *)

\* swapPass without the wrap of line 366: the last position is left alone.
RECURSIVE swapPassNoWrap(_, _, _)
swapPassNoWrap(nms, shuf, i) ==
    IF i >= Len(nms) - 1 THEN shuf
    ELSE IF shuf[i + 1] = nms[i + 1]
         THEN swapPassNoWrap(nms, SwapAt(shuf, i, i + 1), i + 1)
         ELSE swapPassNoWrap(nms, shuf, i + 1)

\* Lines 364-369: the pass that swaps a fixed point with its right neighbour
\* (the last position with the first), from index i on.
RECURSIVE swapPass(_, _, _)
swapPass(nms, shuf, i) ==
    IF i >= Len(nms) THEN shuf
    ELSE IF shuf[i + 1] = nms[i + 1]
         THEN LET j == IF i = Len(nms) - 1 THEN 0 ELSE i + 1
              IN  swapPass(nms, SwapAt(shuf, i, j), i + 1)
         ELSE swapPass(nms, shuf, i + 1)

\* Lines 370-380: fill mapping pair by pair, stopping at the first pair
\* validatePair rejects.
RECURSIVE pairUp(_, _, _, _, _)
pairUp(nms, shuf, excl, map, i) ==
    IF i >= Len(nms) THEN [mapping |-> map, ok |-> TRUE]
    ELSE LET giver == nms[i + 1]
             recv == shuf[i + 1]
             next == Put(map, giver, recv)
         IN  IF ~validatePair(giver, recv, excl)
             THEN [mapping |-> next, ok |-> FALSE]
             ELSE pairUp(nms, shuf, excl, next, i + 1)

\* attemptOnce returning the mapping without the tests of lines 381-382.
attemptOnceUngated(nms, excl, rnd) ==
    LET shuf == swapPass(nms, shuffle(nms, rnd), 0)
        built == pairUp(nms, shuf, excl, EmptyMap, 0)
    IN  [shuffled |-> shuf, mapping |-> built.mapping, returns |-> TRUE]

\* Lines 363-384 for the shuffle draws rnd: the locals at the end of the
\* iteration and whether it returns the mapping.
attemptOnce(nms, excl, rnd) ==
    LET shuf == swapPass(nms, shuffle(nms, rnd), 0)
        built == pairUp(nms, shuf, excl, EmptyMap, 0)
    IN  IF ~built.ok
        THEN [shuffled |-> shuf, mapping |-> built.mapping, returns |-> FALSE]
        ELSE LET fixed == fixExclusions(built.mapping, nms, excl)
             IN  [shuffled |-> shuf,
                  mapping |-> fixed.map,
                  returns |-> fixed.ok /\ validateAssignments(fixed.map, nms, excl)]

-----------------------------------------------------------------------------
(* The inputs the generator is run on *)

\* Rosters up to renaming: the first entry is the first name, and each
\* later entry is an earlier one or the next unused name.  Duplicates, the
\* empty roster and the single-entry roster are included.
IsCanonical(r) ==
    \A i \in 1..Len(r) :
        \E k \in 1..Cardinality({r[h] : h \in 1..(i - 1)}) + 1 : r[i] = AllNames[k]

Rosters ==
    UNION {{r \in [1..n -> FirstNames(MaxLen)] : IsCanonical(r)} : n \in 0..MaxLen}

\* Exclusion maps over the names of the model: at most MaxExcl listed
\* pairs (a giver may list itself), as listed or with every pair also
\* listed the other way round, as for partners excluding each other.
ExclusionMaps ==
    LET U == FirstNames(MaxLen)
        Listed == {Q \in SUBSET (U \X U) : Cardinality(Q) <= MaxExcl}
        Both(Q) == Q \cup {<<q[2], q[1]>> : q \in Q}
    IN  {[g \in U |-> {r \in U : <<g, r>> \in P}] :
            P \in Listed \cup {Both(Q) : Q \in Listed}}

IsUnique(r) == \A i, j \in 1..Len(r) : r[i] = r[j] => i = j

\* Every object with keys and values among the names of the model.
Mappings ==
    LET U == FirstNames(MaxLen)
    IN  UNION {[D -> U] : D \in SUBSET U}

GenOff ==
    /\ names = <<>>
    /\ exclusions = EmptyMap
    /\ attempt = 0
    /\ shuffled = <<>>
    /\ mapping = EmptyMap
    /\ gen = "off"
    /\ error = ""

ValOff ==
    /\ valNames = <<>>
    /\ valExclusions = EmptyMap
    /\ valMapping = EmptyMap
    /\ valResult = FALSE
    /\ valPc = "off"

FixOff ==
    /\ fixNames = <<>>
    /\ fixExcl = EmptyMap
    /\ fixInput = EmptyMap
    /\ fixMap = EmptyMap
    /\ fixOk = FALSE
    /\ fixPc = "off"

\* let state = null
NullState == [null |-> TRUE]

\* The state file: missing, unparsable, or the text of an object.
NoFile == [kind |-> "ENOENT"]

\* No response has been sent by the last step.
NoResponse == [status |-> 0]

SrvOff ==
    /\ EXCLUSIONS = EmptyMap
    /\ phase = "off"
    /\ state = NullState
    /\ file = NoFile
    /\ pc = <<>>
    /\ reqGiver = <<>>
    /\ reqRecipient = <<>>
    /\ data = <<>>
    /\ response = NoResponse
    /\ started = 0
    /\ failures = 0
    /\ epoch = 0
    /\ reqEpoch = <<>>
    /\ succeeded = {}

-----------------------------------------------------------------------------
(* makeAssignments as a state machine *)

GenInit ==
    /\ names \in Rosters
    /\ exclusions \in ExclusionMaps
    /\ attempt = 0
    /\ shuffled = <<>>
    /\ mapping = EmptyMap
    /\ gen = "loop"
    /\ error = ""
    /\ ValOff
    /\ SrvOff
    /\ FixOff

\* Attempt with the loop test attempt <= budget.
AttemptOffByOne ==
    /\ gen = "loop"
    /\ attempt <= MaxAttempts
    /\ \E rnd \in RandomDraws(Len(names)) :
          LET a == attemptOnce(names, exclusions, rnd)
          IN  /\ shuffled' = a.shuffled
              /\ mapping' = a.mapping
              /\ IF a.returns
                 THEN gen' = "returned" /\ attempt' = attempt
                 ELSE gen' = "loop" /\ attempt' = attempt + 1
    /\ UNCHANGED <<names, exclusions, error, valVars, srvVars, fixVars>>

\* One iteration of the for loop of line 362.
Attempt ==
    /\ gen = "loop"
    /\ attempt < MaxAttempts
    /\ \E rnd \in RandomDraws(Len(names)) :
          LET a == attemptOnce(names, exclusions, rnd)
          IN  /\ shuffled' = a.shuffled
              /\ mapping' = a.mapping
              /\ IF a.returns
                 THEN gen' = "returned" /\ attempt' = attempt
                 ELSE gen' = "loop" /\ attempt' = attempt + 1
    /\ UNCHANGED <<names, exclusions, error, valVars, srvVars, fixVars>>

\* Line 386: the loop ended without a return.
Throw ==
    /\ gen = "loop"
    /\ attempt >= MaxAttempts
    /\ gen' = "thrown"
    /\ error' = GenerationError
    /\ UNCHANGED <<names, exclusions, attempt, shuffled, mapping, valVars, srvVars, fixVars>>

GenNext == Attempt \/ Throw

SpecGen == GenInit /\ [][GenNext]_vars

\* makeAssignments called on the roster of the first MaxLen + 1 names, the
\* shortest on which an exchange of two recipients can turn a candidate
\* with an excluded pair into a valid mapping.
GenInitLong ==
    /\ names = [i \in 1..(MaxLen + 1) |-> AllNames[i]]
    /\ exclusions \in ExclusionMaps
    /\ attempt = 0
    /\ shuffled = <<>>
    /\ mapping = EmptyMap
    /\ gen = "loop"
    /\ error = ""
    /\ ValOff
    /\ SrvOff
    /\ FixOff

SpecGenLong == GenInitLong /\ [][GenNext]_vars

-----------------------------------------------------------------------------
(* validateAssignments applied to arbitrary mappings over unique rosters *)

ValInit ==
    /\ valNames \in {r \in Rosters : IsUnique(r)}
    /\ valExclusions \in ExclusionMaps
    /\ valMapping \in Mappings
    /\ valResult = FALSE
    /\ valPc = "call"
    /\ GenOff
    /\ SrvOff
    /\ FixOff

Validate ==
    /\ valPc = "call"
    /\ valResult' = validateAssignments(valMapping, valNames, valExclusions)
    /\ valPc' = "done"
    /\ UNCHANGED <<valNames, valExclusions, valMapping, genVars, srvVars, fixVars>>

ValNext == Validate

SpecVal == ValInit /\ [][ValNext]_vars

-----------------------------------------------------------------------------
(* fixExclusions applied to arbitrary mappings over unique rosters *)

FixInit ==
    /\ fixNames \in {r \in Rosters : IsUnique(r)}
    /\ fixExcl \in ExclusionMaps
    /\ fixInput \in Mappings
    /\ fixMap = EmptyMap
    /\ fixOk = FALSE
    /\ fixPc = "call"
    /\ GenOff
    /\ ValOff
    /\ SrvOff

Repair ==
    /\ fixPc = "call"
    /\ LET fixed == fixExclusions(fixInput, fixNames, fixExcl)
       IN  /\ fixMap' = fixed.map
           /\ fixOk' = fixed.ok
    /\ fixPc' = "done"
    /\ UNCHANGED <<fixNames, fixExcl, fixInput, genVars, valVars, srvVars>>

FixNext == Repair

SpecFix == FixInit /\ [][FixNext]_vars

-----------------------------------------------------------------------------
(* The server: configuration, JSON text and the value of state            *)
(*                                                                         *)
(* createdAt and revealedAt are timestamps no handler reads back; they are *)
(* left out of the state, the file and the responses.                      *)

\* PARTICIPANTS, with MaxLen of the configured names.
PARTICIPANTS == [i \in 1..MaxLen |-> AllNames[i]]

\* The EXCLUSIONS object of the source, which is empty, and the two its
\* comments give as examples (lines 19 and 21).
Configurations ==
    {EmptyMap,
     [g \in {"Alice"} |-> {"Bob"}],
     [g \in {"Alice", "Bob"} |-> IF g = "Alice" THEN {"Bob"} ELSE {"Alice"}]}

Corrupt == [kind |-> "corrupt"]

\* JSON.stringify and JSON.parse: the text holds a copy of the object.
stringify(s) == [kind |-> "json", value |-> s]

parse(text) == text.value

NoData == [kind |-> "none"]

\* makeAssignments returning the mapping of a failed attempt in place of
\* throwing.
makeAssignmentsPartial(nms, excl) ==
    {[returned |-> attemptOnce(nms, excl, rnd).mapping] :
        rnd \in RandomDraws(Len(nms))}

\* makeAssignments as a call: every mapping some attempt returns, and the
\* thrown error when every attempt of the budget can fail.
makeAssignments(nms, excl) ==
    LET tries == {attemptOnce(nms, excl, rnd) : rnd \in RandomDraws(Len(nms))}
    IN  {[returned |-> t.mapping] : t \in {u \in tries : u.returns /\ MaxAttempts > 0}}
        \cup (IF MaxAttempts = 0 \/ \E t \in tries : ~t.returns
              THEN {[thrown |-> GenerationError]}
              ELSE {})

\* buildFreshState carrying the reveals of the state it replaces.
buildFreshStateKeepingReveals(assignments) ==
    [participants |-> PARTICIPANTS,
     exclusions |-> EXCLUSIONS,
     assignments |-> assignments,
     revealed |-> IF state = NullState
                  THEN [name \in Range(PARTICIPANTS) |-> FALSE]
                  ELSE state.revealed,
     history |-> IF state = NullState THEN <<>> ELSE state.history]

\* buildFreshState around the mapping makeAssignments returned.
buildFreshState(assignments) ==
    [participants |-> PARTICIPANTS,
     exclusions |-> EXCLUSIONS,
     assignments |-> assignments,
     revealed |-> [name \in Range(PARTICIPANTS) |-> FALSE],
     history |-> <<>>]

getAvailableGivers(currentState) ==
    SelectSeq(currentState.participants,
              LAMBDA name : ~(name \in DOMAIN currentState.revealed
                              /\ currentState.revealed[name]))

\* The loop of getTakenRecipients over the entries of revealed, which are
\* in the order of participants, from entry i on.
RECURSIVE takenFrom(_, _)
takenFrom(currentState, i) ==
    IF i > Len(currentState.participants) THEN <<>>
    ELSE LET g == currentState.participants[i]
             wasRevealed == g \in DOMAIN currentState.revealed
                            /\ currentState.revealed[g]
             recv == Get(currentState.assignments, g)
         IN  (IF wasRevealed /\ recv # Undefined THEN <<recv>> ELSE <<>>)
             \o takenFrom(currentState, i + 1)

getTakenRecipients(currentState) == takenFrom(currentState, 1)

summarizeState(s) ==
    [participants |-> s.participants,
     revealed |-> s.revealed,
     remaining |-> Len(getAvailableGivers(s)),
     total |-> Len(s.participants),
     takenRecipients |-> getTakenRecipients(s)]

Count(arr, x) == Cardinality({i \in 1..Len(arr) : arr[i] = x})

\* Equal lengths and equal sorted copies: the same names as often.
arrayEqualIgnoreOrder(a, b) ==
    /\ Len(a) = Len(b)
    /\ \A x \in Range(a) \cup Range(b) : Count(a, x) = Count(b, x)

\* isValidState on the object of a parsed file, which has its fields.
isValidState(candidate) ==
    /\ arrayEqualIgnoreOrder(candidate.participants, PARTICIPANTS)
    /\ validateAssignments(candidate.assignments, candidate.participants,
                           candidate.exclusions)

normalizeState(rawState) ==
    [participants |-> rawState.participants,
     exclusions |-> rawState.exclusions,
     assignments |-> rawState.assignments,
     revealed |-> [name \in Range(rawState.participants) |->
                      IF name \in DOMAIN rawState.revealed
                      THEN rawState.revealed[name]
                      ELSE FALSE],
     history |-> rawState.history]

\* arr.pop()
Pop(arr) == IF Len(arr) = 0 THEN arr ELSE SubSeq(arr, 1, Len(arr) - 1)

-----------------------------------------------------------------------------
(* The server: start *)

Slots == 1..NumSlots

\* The mappings validateAssignments accepts for a roster.
ValidMappings(nms, excl) ==
    {m \in [Range(nms) -> Range(nms)] : validateAssignments(m, nms, excl)}

\* What a run with roster nms under configuration cfg wrote after a reset
\* and after its first participant drew.
FilesOf(nms, cfg) ==
    UNION {
        LET fresh == [participants |-> nms,
                      exclusions |-> cfg,
                      assignments |-> m,
                      revealed |-> [name \in Range(nms) |-> FALSE],
                      history |-> <<>>]
            first == nms[1]
        IN  {stringify(fresh),
             stringify([fresh EXCEPT
                 !.revealed[first] = TRUE,
                 !.history = <<[giver |-> first, recipient |-> m[first]]>>])}
        : m \in ValidMappings(nms, cfg)}

\* The state files a run can find besides none and an unparsable one: those
\* written for this roster under any of the configurations, and those
\* written before the last participant was added.
WrittenFiles ==
    UNION {FilesOf(PARTICIPANTS, cfg) : cfg \in Configurations}
    \cup FilesOf(SubSeq(PARTICIPANTS, 1, MaxLen - 1), EmptyMap)

SrvInit ==
    /\ EXCLUSIONS \in Configurations
    /\ phase = "boot"
    /\ state = NullState
    /\ file \in {NoFile, Corrupt} \cup WrittenFiles
    /\ pc = [c \in Slots |-> "idle"]
    /\ reqGiver = [c \in Slots |-> ""]
    /\ reqRecipient = [c \in Slots |-> ""]
    /\ data = [c \in Slots |-> NoData]
    /\ response = NoResponse
    /\ started = 0
    /\ failures = 0
    /\ epoch = 0
    /\ reqEpoch = [c \in Slots |-> 0]
    /\ succeeded = {}
    /\ GenOff
    /\ ValOff
    /\ FixOff

\* resetState run to its end with no other handler in between, from state
\* st and file fl with room for canFail failing file-system calls: whether
\* it resolved, the state and the file it leaves, the calls that failed and
\* the states it built.
resetStateAlone(st, fl, canFail) ==
    UNION {
        IF "thrown" \in DOMAIN o
        THEN {[ok |-> FALSE, state |-> st, file |-> fl, failed |-> 0, built |-> 0]}
        ELSE LET fresh == buildFreshState(o.returned)
             IN  {[ok |-> TRUE, state |-> fresh, file |-> stringify(fresh),
                   failed |-> 0, built |-> 1]}
                 \cup (IF canFail > 0
                       THEN {[ok |-> FALSE, state |-> fresh, file |-> f,
                              failed |-> 1, built |-> 1] : f \in {fl, Corrupt}}
                       ELSE {})
        : o \in makeAssignments(PARTICIPANTS, EXCLUSIONS)}

\* resetState called again by the catch of loadState after a first call,
\* made inside its try, rejected (lines 175 and 185).
resetStateTwice(st, fl, canFail) ==
    UNION {
        IF a.ok THEN {a}
        ELSE {[b EXCEPT !.failed = a.failed + b.failed, !.built = a.built + b.built]
              : b \in resetStateAlone(a.state, a.file, canFail - a.failed)}
        : a \in resetStateAlone(st, fl, canFail)}

\* loadState as startServer awaits it, before the server listens.
loadState ==
    IF file = NoFile
    THEN resetStateAlone(state, file, MaxFailures)
    ELSE IF file = Corrupt
    THEN resetStateAlone(state, file, MaxFailures)
    ELSE IF ~isValidState(parse(file))
    THEN resetStateTwice(state, file, MaxFailures)
    ELSE {[ok |-> TRUE, state |-> normalizeState(parse(file)), file |-> file,
           failed |-> 0, built |-> 1]}

\* startServer: listen once loadState resolved, exit when it rejected.
StartServer ==
    /\ phase = "boot"
    /\ \E r \in loadState :
          /\ state' = r.state
          /\ file' = r.file
          /\ failures' = r.failed
          /\ epoch' = r.built
          /\ phase' = IF r.ok THEN "listening" ELSE "exited"
    /\ UNCHANGED <<EXCLUSIONS, pc, reqGiver, reqRecipient, data, response, started,
                   reqEpoch, succeeded, genVars, valVars, fixVars>>

-----------------------------------------------------------------------------
(* The server: request handlers.  A handler runs from one await of file    *)
(* input or output to the next without another handler in between; the     *)
(* awaits of ensureState and readJson precede every read of state and are  *)
(* part of the first step.                                                 *)

\* A request is received while the server listens; its handler takes the
\* first slot that holds no handler.
CanReceive(c) ==
    /\ phase = "listening"
    /\ pc[c] = "idle"
    /\ \A d \in Slots : d < c => pc[d] # "idle"
    /\ started < MaxRequests

Respond(c, route, status, body) ==
    [slot |-> c, route |-> route, status |-> status, body |-> body]

\* A string of a request body: its text between the white space around it.
Text(padded, inner) == [type |-> "string", padded |-> padded, inner |-> inner]

\* A giver that is no string.
NotAString == [type |-> "number"]

\* typeof body.giver === 'string' ? body.giver.trim() : ''
trimmedGiver(body) ==
    IF body.giver.type = "string" THEN body.giver.inner ELSE ""

\* What readJson makes of the body of a request (lines 333-359): a text
\* over the size limit, a text that is no JSON, and a JSON value that is
\* falsy (null, 0, false, "").
TooLarge == [rejected |-> 413]

BadJson == [rejected |-> 400]

FalsyJson == [falsy |-> TRUE]

\* The bodies of /api/draw requests: those and the objects whose giver is
\* no string (or missing, as in the {} of an empty body), blank, a
\* stranger or a participant, with or without white space around it.
DrawBodies ==
    {TooLarge, BadJson, FalsyJson, [giver |-> NotAString]}
    \cup {[giver |-> Text(padded, inner)] :
             padded \in BOOLEAN, inner \in Range(PARTICIPANTS) \cup {"", "Mallory"}}

\* A draw that also gives the giver another recipient.
markRevealedRegenerating(s, g, recv) ==
    [s EXCEPT
        !.assignments[g] = CHOOSE other \in Range(s.participants) : other # recv,
        !.revealed[g] = TRUE,
        !.history = Append(@, [giver |-> g, recipient |-> recv])]

\* The draw handler marks the giver and records the reveal (lines 106-111).
markRevealed(s, g, recv) ==
    [s EXCEPT
        !.revealed[g] = TRUE,
        !.history = Append(@, [giver |-> g, recipient |-> recv])]

\* GET /api/state (lines 62-71).
StateRequest(c) ==
    /\ CanReceive(c)
    /\ started' = started + 1
    /\ response' = Respond(c, "/api/state", 200, summarizeState(state))
    /\ UNCHANGED <<EXCLUSIONS, phase, state, file, pc, reqGiver, reqRecipient, data,
                   failures, epoch, reqEpoch, succeeded, genVars, valVars, fixVars>>

\* A request of another route or method (lines 57-60, 63-66, 74-77,
\* 135-138, 149-160): its answer is the page or a fixed text.
OtherRequest(c) ==
    /\ CanReceive(c)
    /\ started' = started + 1
    /\ \E status \in {200, 204, 404, 405} :
          response' = Respond(c, "other", status, [fixed |-> TRUE])
    /\ UNCHANGED <<EXCLUSIONS, phase, state, file, pc, reqGiver, reqRecipient, data,
                   failures, epoch, reqEpoch, succeeded, genVars, valVars, fixVars>>

\* POST /api/draw up to the call of mkdir in saveState (lines 73-114, 208).
Draw(c) ==
    /\ CanReceive(c)
    /\ started' = started + 1
    /\ \E body \in DrawBodies :
          LET g == IF body \in {TooLarge, BadJson, FalsyJson} THEN ""
                   ELSE trimmedGiver(body)
              recv == Get(state.assignments, g)
              reject(status, message) ==
                  /\ response' = Respond(c, "/api/draw", status, [error |-> message])
                  /\ UNCHANGED <<state, pc, reqGiver, reqRecipient, reqEpoch>>
          IN  IF body = TooLarge
              THEN reject(413, "Payload too large")
              ELSE IF body = BadJson
              THEN reject(400, "Invalid JSON payload")
              ELSE IF body = FalsyJson
              THEN /\ response' = NoResponse
                   /\ UNCHANGED <<state, pc, reqGiver, reqRecipient, reqEpoch>>
              ELSE IF g = ""
              THEN reject(400, "Missing or invalid \"giver\" name.")
              ELSE IF g \notin Range(state.participants)
              THEN reject(404, "That name is not in the participant list.")
              ELSE IF state.revealed[g]
              THEN reject(409, "That person already drew a name.")
              ELSE IF recv = Undefined
              THEN reject(500, "No assignment found. Try resetting the draw.")
              ELSE /\ state' = markRevealed(state, g, recv)
                   /\ pc' = [pc EXCEPT ![c] = "draw_mkdir"]
                   /\ reqGiver' = [reqGiver EXCEPT ![c] = g]
                   /\ reqRecipient' = [reqRecipient EXCEPT ![c] = recv]
                   /\ reqEpoch' = [reqEpoch EXCEPT ![c] = epoch]
                   /\ response' = NoResponse
    /\ UNCHANGED <<EXCLUSIONS, phase, file, data, failures, epoch, succeeded,
                   genVars, valVars, fixVars>>

\* POST /api/reset up to the call of mkdir in saveState (lines 134-139,
\* 189-205, 208), or to the answer of the server's catch (lines 28-35) when
\* makeAssignments throws.
Reset(c) ==
    /\ CanReceive(c)
    /\ epoch < MaxEpochs
    /\ started' = started + 1
    /\ \E o \in makeAssignments(PARTICIPANTS, EXCLUSIONS) :
          IF "thrown" \in DOMAIN o
          THEN /\ response' = Respond(c, "/api/reset", 500,
                                      [error |-> "Internal server error"])
               /\ UNCHANGED <<state, pc, epoch, succeeded>>
          ELSE /\ state' = buildFreshState(o.returned)
               /\ epoch' = epoch + 1
               /\ succeeded' = {}
               /\ pc' = [pc EXCEPT ![c] = "reset_mkdir"]
               /\ response' = NoResponse
    /\ UNCHANGED <<EXCLUSIONS, phase, file, reqGiver, reqRecipient, data, failures,
                   reqEpoch, genVars, valVars, fixVars>>

\* What the handler of slot c does when its saveState rejected: the catch
\* of the draw handler (lines 115-120), or the server's catch for a reset.
SaveRejected(c) ==
    /\ IF pc[c] \in {"draw_mkdir", "draw_write"}
       THEN /\ state' = [state EXCEPT
                    !.revealed = Put(@, reqGiver[c], FALSE),
                    !.history = Pop(@)]
            /\ response' = Respond(c, "/api/draw", 500,
                   [error |-> "Could not save the draw. Please try again."])
       ELSE /\ state' = state
            /\ response' = Respond(c, "/api/reset", 500,
                   [error |-> "Internal server error"])
    /\ pc' = [pc EXCEPT ![c] = "idle"]
    /\ reqGiver' = [reqGiver EXCEPT ![c] = ""]
    /\ reqRecipient' = [reqRecipient EXCEPT ![c] = ""]
    /\ data' = [data EXCEPT ![c] = NoData]
    /\ reqEpoch' = [reqEpoch EXCEPT ![c] = 0]
    /\ failures' = failures + 1

\* saveState: mkdir resolved, the state is turned into text and writeFile
\* is called (lines 208-210).
MkdirDone(c) ==
    /\ pc[c] \in {"draw_mkdir", "reset_mkdir"}
    /\ data' = [data EXCEPT ![c] = stringify(state)]
    /\ pc' = [pc EXCEPT ![c] = IF pc[c] = "draw_mkdir" THEN "draw_write"
                                                       ELSE "reset_write"]
    /\ response' = NoResponse
    /\ UNCHANGED <<EXCLUSIONS, phase, state, file, reqGiver, reqRecipient, started,
                   failures, epoch, reqEpoch, succeeded, genVars, valVars, fixVars>>

\* saveState: mkdir rejected.
MkdirFailed(c) ==
    /\ pc[c] \in {"draw_mkdir", "reset_mkdir"}
    /\ failures < MaxFailures
    /\ SaveRejected(c)
    /\ UNCHANGED <<EXCLUSIONS, phase, file, started, epoch, succeeded,
                   genVars, valVars, fixVars>>

\* saveState: writeFile resolved, the file holds the text; the handler
\* answers 200 from the state as it is now (lines 123-131, 140-146).
WriteDone(c) ==
    /\ pc[c] \in {"draw_write", "reset_write"}
    /\ file' = data[c]
    /\ LET summary == summarizeState(state)
       IN  response' =
               IF pc[c] = "draw_write"
               THEN Respond(c, "/api/draw", 200,
                            [giver |-> reqGiver[c],
                             recipient |-> reqRecipient[c],
                             remaining |-> summary.remaining,
                             total |-> summary.total,
                             takenRecipients |-> summary.takenRecipients])
               ELSE Respond(c, "/api/reset", 200,
                            [message |-> "Secret Santa assignments reset.",
                             remaining |-> summary.remaining,
                             total |-> summary.total])
    /\ pc' = [pc EXCEPT ![c] = "idle"]
    /\ reqGiver' = [reqGiver EXCEPT ![c] = ""]
    /\ reqRecipient' = [reqRecipient EXCEPT ![c] = ""]
    /\ data' = [data EXCEPT ![c] = NoData]
    /\ succeeded' = IF pc[c] = "draw_write" /\ reqEpoch[c] = epoch
                    THEN succeeded \cup {reqGiver[c]}
                    ELSE succeeded
    /\ reqEpoch' = [reqEpoch EXCEPT ![c] = 0]
    /\ UNCHANGED <<EXCLUSIONS, phase, state, started, failures, epoch,
                   genVars, valVars, fixVars>>

\* saveState: writeFile rejected, leaving the file as it was or cut short.
WriteFailed(c) ==
    /\ pc[c] \in {"draw_write", "reset_write"}
    /\ failures < MaxFailures
    /\ file' \in {file, Corrupt}
    /\ SaveRejected(c)
    /\ UNCHANGED <<EXCLUSIONS, phase, started, epoch, succeeded, genVars, valVars, fixVars>>

Next ==
    \/ StartServer
    \/ \E c \in Slots :
          \/ StateRequest(c)
          \/ OtherRequest(c)
          \/ Draw(c)
          \/ Reset(c)
          \/ MkdirDone(c)
          \/ MkdirFailed(c)
          \/ WriteDone(c)
          \/ WriteFailed(c)

Spec == SrvInit /\ [][Next]_vars

-----------------------------------------------------------------------------
(* Properties of makeAssignments (SpecGen) *)

Injective(m) == \A a, b \in DOMAIN m : m[a] = m[b] => a = b

IsPermutationOf(m, r) ==
    /\ DOMAIN m = Range(r)
    /\ Range(m) = Range(r)
    /\ Injective(m)

\* The exclusion list of giver g, empty when the map has none.
ExcludedBy(excl, g) == IF g \in DOMAIN excl THEN excl[g] ELSE {}

NoExclusions(excl) == \A g \in DOMAIN excl : excl[g] = {}

\* The permutations of the roster's names with no fixed point and no
\* excluded pair.
ValidDerangements(r, excl) ==
    {f \in [Range(r) -> Range(r)] :
        /\ Injective(f)
        /\ \A p \in Range(r) : f[p] # p /\ f[p] \notin ExcludedBy(excl, p)}

RosterInvalid(r) == Len(r) < 2 \/ ~IsUnique(r)

\* C1: a mapping makeAssignments returns is a permutation of the roster:
\* its givers are exactly the names, its recipients are exactly the names,
\* and no recipient appears twice; no partial mapping is returned.
ReturnedIsPermutation ==
    gen = "returned" => IsPermutationOf(mapping, names)

ReturnedPermutationReached ==
    /\ gen = "returned"
    /\ Len(names) = 3
    /\ ~NoExclusions(exclusions)

\* C2: a mapping makeAssignments returns has no fixed point.
ReturnedHasNoFixedPoint ==
    gen = "returned" => \A i \in 1..Len(names) : Get(mapping, names[i]) # names[i]

ReturnedAfterRetryReached ==
    /\ gen = "returned"
    /\ attempt > 0
    /\ Len(names) >= 2

\* C3: a mapping makeAssignments returns gives no participant a recipient
\* of that participant's exclusion list.
ReturnedRespectsExclusions ==
    gen = "returned" =>
        \A i \in 1..Len(names) :
            Get(mapping, names[i]) \notin ExcludedBy(exclusions, names[i])

AliceExcludesBobReached ==
    /\ gen = "returned"
    /\ names = <<"Alice", "Bob", "Charlie">>
    /\ exclusions["Alice"] = {"Bob"}
    /\ mapping["Alice"] = "Charlie"

\* C4: on a roster of at least 2 unique names with an empty exclusion map
\* no attempt fails, whatever the shuffle draws, so the call returns a
\* mapping and never throws.
NoExclusionsAlwaysSucceeds ==
    (Len(names) >= 2 /\ IsUnique(names) /\ NoExclusions(exclusions)) =>
        (gen \in {"loop", "returned"} /\ attempt = 0)

NoExclusionsReturnedReached ==
    /\ Len(names) = 3
    /\ IsUnique(names)
    /\ NoExclusions(exclusions)
    /\ gen = "returned"

\* C5: when no derangement of a roster of unique names satisfies the
\* exclusions, makeAssignments never returns a mapping and ends by
\* throwing its error once the budget is used up.
InfeasibleNeverReturns ==
    (gen # "off" /\ IsUnique(names) /\ ValidDerangements(names, exclusions) = {}) =>
        /\ gen \in {"loop", "thrown"}
        /\ gen = "thrown" => (attempt = MaxAttempts /\ error = GenerationError)

MutualExclusionThrownReached ==
    /\ names = <<"Alice", "Bob">>
    /\ exclusions["Alice"] = {"Bob"}
    /\ exclusions["Bob"] = {"Alice"}
    /\ gen = "thrown"

\* C6: on a roster with a duplicate or with fewer than 2 entries
\* makeAssignments returns no mapping and fails with an InvalidRoster error,
\* which is not the error of an exhausted budget.
InvalidRosterRejected ==
    (gen # "off" /\ RosterInvalid(names)) =>
        /\ gen # "returned"
        /\ gen = "thrown" => error = "InvalidRoster"

\* C8: makeAssignments terminates; it makes at most MaxAttempts attempts,
\* returns in the first attempt whose mapping passes validation, and throws
\* exactly when the whole budget was used without such an attempt.
\* Termination is stated by its variant: while the call is running a step
\* is always possible, and every step either ends the call or raises
\* attempt, which never exceeds the budget.
BoundedAttempts ==
    /\ attempt <= MaxAttempts
    /\ gen = "returned" =>
           (attempt < MaxAttempts /\ validateAssignments(mapping, names, exclusions))
    /\ gen = "thrown" => attempt = MaxAttempts
    /\ (gen = "loop" /\ attempt > 0) =>
           ~validateAssignments(mapping, names, exclusions)

AttemptStep ==
    gen = "loop" =>
        \/ gen' = "returned" /\ attempt' = attempt
        \/ gen' = "loop" /\ attempt' = attempt + 1
        \/ gen' = "thrown" /\ attempt' = attempt /\ attempt = MaxAttempts

\* While the call is running, the loop test or its negation lets a step
\* happen: an iteration with some shuffle, or the throw after the loop.
CanStep ==
    gen = "loop" =>
        \/ attempt < MaxAttempts /\ RandomDraws(Len(names)) # {}
        \/ attempt >= MaxAttempts

TerminatesWithinBudget ==
    /\ [](BoundedAttempts /\ CanStep)
    /\ [][AttemptStep]_vars

BudgetExhaustedReached ==
    /\ gen = "thrown"
    /\ attempt = MaxAttempts
    /\ IsUnique(names)
    /\ ValidDerangements(names, exclusions) # {}

-----------------------------------------------------------------------------
(* Properties of validateAssignments (SpecVal) *)

\* C7: over a roster of unique names validateAssignments returns true
\* exactly when every name maps to a name of the roster, no name maps to
\* itself or to a member of its exclusion list, and no recipient is repeated.
ValidateIsExact ==
    valPc = "done" =>
        (valResult <=>
            \A i \in 1..Len(valNames) :
                LET recv == Get(valMapping, valNames[i])
                IN  /\ recv \in Range(valNames)
                    /\ recv # valNames[i]
                    /\ recv \notin ExcludedBy(valExclusions, valNames[i])
                    /\ \A j \in 1..Len(valNames) :
                           Get(valMapping, valNames[j]) = recv => j = i)

\* A cyclic shift of the roster with no exclusions validates.
CyclicShiftValidatedReached ==
    /\ valNames = <<"Alice", "Bob", "Charlie">>
    /\ NoExclusions(valExclusions)
    /\ valMapping = [g \in {"Alice", "Bob", "Charlie"} |->
                        CASE g = "Alice" -> "Bob"
                          [] g = "Bob" -> "Charlie"
                          [] OTHER -> "Alice"]
    /\ valPc = "done"
    /\ valResult

-----------------------------------------------------------------------------
(* Properties of the server (Spec) *)

\* C9: between one build of the state and the next, no step of a handler
\* changes state.assignments, nor the participants and exclusions it was
\* generated for: a draw, its rollback and /api/state leave the mapping as
\* generated, and only revealed and history change.
AssignmentsFixedWithinEpoch ==
    [][(state # NullState /\ state' # NullState /\ epoch' = epoch)
           => /\ state'.assignments = state.assignments
              /\ state'.participants = state.participants
              /\ state'.exclusions = state.exclusions]_vars

\* A draw was answered 200 and its reveal is in the history of the state.
DrawAnsweredReached ==
    /\ response # NoResponse
    /\ response.route = "/api/draw"
    /\ response.status = 200
    /\ state.revealed[response.body.giver]
    /\ Len(state.history) > 0

\* The summary of the state with assignments a2 in place of its own.
summaryWith(a2) == summarizeState([state EXCEPT !.assignments = a2])

\* C10: a 200 response to /api/state is the same whatever valid mapping the
\* state holds, and the remaining, total and takenRecipients of a 200
\* response to the draw of a giver are the same whatever recipients the
\* other givers have.
ResponsesHideRecipients ==
    (response # NoResponse /\ response.status = 200) =>
        \A a2 \in ValidMappings(state.participants, state.exclusions) :
            /\ response.route = "/api/state" => summaryWith(a2) = response.body
            /\ (/\ response.route = "/api/draw"
                /\ a2[response.body.giver] = response.body.recipient)
                   => /\ summaryWith(a2).remaining = response.body.remaining
                      /\ summaryWith(a2).total = response.body.total
                      /\ summaryWith(a2).takenRecipients
                             = response.body.takenRecipients

\* C11: a giver whose draw on the present state was answered 200 stays
\* revealed until the next build of the state, so that every later draw
\* for that giver is rejected with 409 and none is answered 200 again.
SucceededStayRevealed ==
    phase = "listening" => \A g \in succeeded : state.revealed[g]

\* No handler is in progress and no file-system call has failed.
Quiescent ==
    /\ phase = "listening"
    /\ failures = 0
    /\ \A c \in Slots : pc[c] = "idle"

\* C12: once every handler and write has completed without a failure, the
\* state file is one loadState accepts, with the assignments of the state
\* and the revealed flag of every giver whose draw on the present state was
\* answered 200, so that a restart finds that giver revealed.
RevealsAreDurable ==
    Quiescent =>
        \A g \in succeeded :
            /\ file.kind = "json"
            /\ isValidState(parse(file))
            /\ normalizeState(parse(file)).assignments = state.assignments
            /\ normalizeState(parse(file)).revealed[g]

\* The state holds a permutation of PARTICIPANTS without a fixed point or a
\* pair the configured EXCLUSIONS forbid.
HoldsValidMapping(s) ==
    /\ s.participants = PARTICIPANTS
    /\ s.exclusions = EXCLUSIONS
    /\ IsPermutationOf(s.assignments, PARTICIPANTS)
    /\ \A p \in Range(PARTICIPANTS) :
           /\ s.assignments[p] # p
           /\ s.assignments[p] \notin ExcludedBy(EXCLUSIONS, p)

\* Such a state with nobody revealed and no history.
IsFreshState(s) ==
    /\ HoldsValidMapping(s)
    /\ DOMAIN s.revealed = Range(PARTICIPANTS)
    /\ \A p \in Range(PARTICIPANTS) : ~s.revealed[p]
    /\ s.history = <<>>

ResetAnswered ==
    /\ response # NoResponse
    /\ response.route = "/api/reset"
    /\ response.status = 200

Infeasible == ValidDerangements(PARTICIPANTS, EXCLUSIONS) = {}

\* C14: a step of /api/reset in which makeAssignments throws answers 500 and
\* leaves state, the file and every handler as they were; a start that
\* fails without a failing file-system call leaves state and the file as
\* they were and does not listen; and while no valid mapping exists no
\* reset goes on to save or is answered 200, and a start without a usable
\* file exits.
GeneratorFailureLeavesState ==
    /\ [][(/\ started' = started + 1
           /\ response' # NoResponse
           /\ response'.route = "/api/reset")
             => /\ response'.status = 500
                /\ state' = state
                /\ file' = file
                /\ pc' = pc
                /\ epoch' = epoch]_vars
    /\ [][(phase = "boot" /\ phase' = "exited" /\ failures' = failures)
             => (state' = state /\ file' = file)]_vars
    /\ [][(phase = "boot" /\ Infeasible /\ file \in {NoFile, Corrupt})
             => phase' = "exited"]_vars
    /\ [](Infeasible =>
             /\ ~ResetAnswered
             /\ \A c \in Slots : pc[c] \notin {"reset_mkdir", "reset_write"})

\* /api/reset was answered 500 by a server whose configuration leaves no
\* valid mapping, with no file-system call failed.
ResetRefusedReached ==
    /\ Infeasible
    /\ failures = 0
    /\ response # NoResponse
    /\ response.route = "/api/reset"
    /\ response.status = 500
    /\ state # NullState

-----------------------------------------------------------------------------
(* Properties of the attempt loop on the longer roster (SpecGenLong) *)

\* The candidate of the last attempt: each name of a unique roster paired
\* with the entry of shuffled at its position.
Candidate ==
    [g \in Range(names) |->
        shuffled[CHOOSE i \in 1..Len(names) : names[i] = g]]

\* C15: an attempt is abandoned only if the repair pass, run on its
\* candidate, fails or the repaired mapping fails final validation: no
\* abandoned candidate is one fixExclusions turns into a valid mapping.
AbandonedOnlyAfterRepair ==
    (gen \in {"loop", "thrown"} /\ attempt > 0) =>
        LET fixed == fixExclusions(Candidate, names, exclusions)
        IN  ~(fixed.ok /\ validateAssignments(fixed.map, names, exclusions))

-----------------------------------------------------------------------------
(* Properties of fixExclusions (SpecFix) *)

\* The pairing of giver g with recipient r is neither a self-match nor
\* excluded.
PairValid(g, r, excl) == r # g /\ r \notin ExcludedBy(excl, g)

\* The positions of the other givers whose recipient giver i can take while
\* they take the recipient of giver i, both resulting pairings being valid.
Counterparts(map, nms, excl, i) ==
    {j \in 1..Len(nms) :
        /\ j # i
        /\ PairValid(nms[i], map[nms[j]], excl)
        /\ PairValid(nms[j], map[nms[i]], excl)}

\* The repair pass as the claim words it, from the giver at position i on:
\* a giver whose pairing is invalid exchanges recipients with its first
\* counterpart in roster order, and the pass fails at the first such giver
\* that has none.
RECURSIVE RepairInOrder(_, _, _, _)
RepairInOrder(map, nms, excl, i) ==
    IF i > Len(nms) THEN [map |-> map, ok |-> TRUE]
    ELSE IF PairValid(nms[i], map[nms[i]], excl)
         THEN RepairInOrder(map, nms, excl, i + 1)
    ELSE LET found == Counterparts(map, nms, excl, i)
         IN  IF found = {} THEN [map |-> map, ok |-> FALSE]
             ELSE LET j == CHOOSE k \in found : \A h \in found : k <= h
                  IN  RepairInOrder([map EXCEPT ![nms[i]] = map[nms[j]],
                                                ![nms[j]] = map[nms[i]]],
                                    nms, excl, i + 1)

\* C16: on a map that gives every name of a unique roster a recipient,
\* fixExclusions does what the repair in roster order does and returns
\* whether it got through; and when it returns true on a permutation of
\* the roster, it leaves a permutation of the roster in which no pairing is
\* a self-match or excluded.
FixExclusionsRepairsInOrder ==
    (fixPc = "done" /\ Range(fixNames) \subseteq DOMAIN fixInput) =>
        /\ [map |-> fixMap, ok |-> fixOk]
               = RepairInOrder(fixInput, fixNames, fixExcl, 1)
        /\ (fixOk /\ IsPermutationOf(fixInput, fixNames)) =>
               /\ IsPermutationOf(fixMap, fixNames)
               /\ \A g \in Range(fixNames) : PairValid(g, fixMap[g], fixExcl)

\* Alice, paired with herself, took the recipient of Bob, the first of the
\* two givers she could exchange with.
FirstCounterpartTakenReached ==
    /\ fixPc = "done"
    /\ fixNames = <<"Alice", "Bob", "Charlie">>
    /\ NoExclusions(fixExcl)
    /\ fixInput = [g \in {"Alice", "Bob", "Charlie"} |->
                      CASE g = "Alice" -> "Alice"
                        [] g = "Bob" -> "Charlie"
                        [] OTHER -> "Bob"]
    /\ fixOk
    /\ fixMap["Alice"] = "Charlie"
    /\ fixMap["Bob"] = "Alice"
    /\ fixMap["Charlie"] = "Bob"

-----------------------------------------------------------------------------
(* Properties of the server under concurrent requests (Spec) *)

\* The sequence without its entry at position k.
Without(arr, k) == SubSeq(arr, 1, k - 1) \o SubSeq(arr, k + 1, Len(arr))

\* C17: in the step in which the draw handler of a slot answers a failed
\* save, on the state its reveal was made on, the giver's revealed flag
\* becomes false, the history loses the entry this handler pushed, and no
\* other flag or entry changes.
RollbackUndoesOwnReveal ==
    [][\A c \in Slots :
          (/\ pc[c] \in {"draw_mkdir", "draw_write"}
           /\ pc'[c] = "idle"
           /\ failures' = failures + 1
           /\ reqEpoch[c] = epoch)
             => /\ state'.revealed = [state.revealed EXCEPT ![reqGiver[c]] = FALSE]
                /\ \E k \in 1..Len(state.history) :
                      /\ state.history[k] = [giver |-> reqGiver[c],
                                             recipient |-> reqRecipient[c]]
                      /\ state'.history = Without(state.history, k)]_vars

\* C19: when /api/draw is answered 200 with recipient r for giver g, the
\* state at that moment has g revealed, r as the recipient assigned to g,
\* and an entry for g and r in its history.
DrawAnswerMatchesState ==
    (response # NoResponse /\ response.route = "/api/draw" /\ response.status = 200)
        => /\ state.revealed[response.body.giver]
           /\ state.assignments[response.body.giver] = response.body.recipient
           /\ \E k \in 1..Len(state.history) :
                  state.history[k] = [giver |-> response.body.giver,
                                      recipient |-> response.body.recipient]

-----------------------------------------------------------------------------
(* Properties of the adjacent-swap pass (SpecGen) *)

\* The arrangements of the roster r, which the pass of lines 364-369 works on.
Arrangements(r) ==
    {s \in [1..Len(r) -> Range(r)] : Range(s) = Range(r)}

\* The positions (0-based) at which s pairs a participant of r with itself.
FixedPoints(r, s) == {k \in 0..(Len(r) - 1) : s[k + 1] = r[k + 1]}

\* C18: for a roster of at least 2 unique names, the swap of a fixed point
\* at position i with its right neighbour (the first position for the last)
\* removes that fixed point and creates none at any position, on every
\* arrangement of the roster; and the array left by the whole pass, for
\* every shuffle, pairs no participant with itself.
SwapPassLeavesNoFixedPoint ==
    (Len(names) >= 2 /\ IsUnique(names)) =>
        /\ \A s \in Arrangements(names) : \A i \in FixedPoints(names, s) :
              LET j == IF i = Len(names) - 1 THEN 0 ELSE i + 1
              IN  FixedPoints(names, SwapAt(s, i, j)) \subseteq FixedPoints(names, s) \ {i}
        /\ shuffled # <<>> => FixedPoints(names, shuffled) = {}

\* An attempt whose shuffle left the last participant in place, so that
\* the pass exchanged the last position with the first.
WrappedSwapReached ==
    /\ names = <<"Alice", "Bob", "Charlie">>
    /\ shuffled # <<>>
    /\ \E rnd \in RandomDraws(Len(names)) :
          /\ shuffle(names, rnd)[3] = names[3]
          /\ shuffle(names, rnd)[1] # names[1]
          /\ shuffled = swapPass(names, shuffle(names, rnd), 0)

-----------------------------------------------------------------------------
(* Properties of startup (Spec) *)

\* C20: once loadState has completed and the server listens, and before
\* any request, no giver of the roster is assigned a recipient that the
\* configured EXCLUSIONS list for that giver, whichever configuration the
\* state file found at startup was written under.
LoadedStateRespectsExclusions ==
    (phase = "listening" /\ started = 0) =>
        \A g \in Range(PARTICIPANTS) :
            Get(state.assignments, g) \notin ExcludedBy(EXCLUSIONS, g)

=============================================================================
